---- MODULE Spec2Model ----
(***************************************************************************)
(* Per-incident enrichment pipeline of police-data-intelligence:           *)
(* Extract -> Coordinator -> Search -> Coordinator -> Validate ->          *)
(* Coordinator -> Merge -> Coordinator -> Complete | Escalate.             *)
(*                                                                         *)
(* Encoding.  A Python str is a sequence of one-character strings          *)
(* (<<"h","o","u">>), so that the fuzzy ratios can be computed; None is    *)
(* the one-element sequence <<"None">> for str/list typed fields and -1    *)
(* for date/float typed fields.  A date is a day number.  A relevance      *)
(* score is an integer number of hundredths (0.5 is 50); an average is     *)
(* floored, which does not change its comparison with an integer.          *)
(* Enum members, URLs and error_message markers are TLA+ strings.          *)
(***************************************************************************)
EXTENDS Integers, Sequences, FiniteSets, TLC

VARIABLES
    state,      \* the EnrichmentState threaded through the graph
    pc,         \* the graph node to execute next ("END": finished, "raised": invoke() raised)
    nSearch,    \* history: number of times the Search node was entered
    llm,        \* history: what the LLM answered per article in Merge (<<>> before)
    conn        \* the database connection of Extract: "none", "open" or "closed"

vars == <<state, pc, nSearch, llm, conn>>

None == <<"None">>
NoNum == -1

\* ----------------------------------------------------------------- bounds
\* results returned by one web search (the program asks for at most 5)
MaxResults == 2
\* articles handed to Validate/Merge in the node-level specification
MaxArticles == 2
\* largest configured max_retries explored
MaxMaxRetries == 3
\* extractions of one field handed to check_articles_match in the
\* function-level specification
MaxValues == 3
\* largest distance in days between the two dates handed to check_date_match
MaxDayOffset == 4

\* ------------------------------------------------------- Python helpers
Min(a, b) == IF a <= b THEN a ELSE b
Max(a, b) == IF a >= b THEN a ELSE b
Abs(x) == IF x < 0 THEN -x ELSE x

\* truthiness of an optional str: None and "" are falsy
Truthy(s) == s # None /\ s # <<>>

\* str.lower() over the model's alphabet
LowerChar(c) == CASE c = "H" -> "h" [] c = "D" -> "d" [] OTHER -> c
Lower(s) == [i \in 1..Len(s) |-> LowerChar(s[i])]

SetMax(S) == CHOOSE x \in S : \A y \in S : y <= x

\* " ".join(parts)
RECURSIVE JoinSpace(_)
JoinSpace(parts) ==
    IF Len(parts) = 0 THEN <<>>
    ELSE IF Len(parts) = 1 THEN parts[1]
    ELSE parts[1] \o <<" ">> \o JoinSpace(Tail(parts))

\* ------------------------------------------------------------ rapidfuzz
\* length of a longest common subsequence
RECURSIVE LCS(_, _)
LCS(a, b) ==
    IF Len(a) = 0 \/ Len(b) = 0 THEN 0
    ELSE IF a[Len(a)] = b[Len(b)]
         THEN 1 + LCS(SubSeq(a, 1, Len(a) - 1), SubSeq(b, 1, Len(b) - 1))
         ELSE Max(LCS(SubSeq(a, 1, Len(a) - 1), b), LCS(a, SubSeq(b, 1, Len(b) - 1)))

\* fuzz.ratio: normalized Indel similarity, 100 * 2*LCS / (len1 + len2), floored
ratio(s1, s2) ==
    IF Len(s1) + Len(s2) = 0 THEN 100
    ELSE (200 * LCS(s1, s2)) \div (Len(s1) + Len(s2))

\* alignments of a needle of length m in a longer string: every window of
\* length m, and the shorter prefixes and suffixes
Windows(long, m) ==
    {SubSeq(long, i, i + m - 1) : i \in 1..(Len(long) - m + 1)}
    \cup {SubSeq(long, 1, k) : k \in 1..Min(m - 1, Len(long))}
    \cup {SubSeq(long, Len(long) - k + 1, Len(long)) : k \in 1..Min(m - 1, Len(long))}

partial_ratio_short(short, long) ==
    SetMax({ratio(short, w) : w \in Windows(long, Len(short))})

\* fuzz.partial_ratio: best ratio of the shorter string against an alignment
\* in the longer one
partial_ratio(s1, s2) ==
    IF Len(s1) = 0 /\ Len(s2) = 0 THEN 100
    ELSE IF Len(s1) = 0 \/ Len(s2) = 0 THEN 0
    ELSE IF Len(s1) < Len(s2) THEN partial_ratio_short(s1, s2)
    ELSE IF Len(s2) < Len(s1) THEN partial_ratio_short(s2, s1)
    ELSE Max(partial_ratio_short(s1, s2), partial_ratio_short(s2, s1))

RAPIDFUZZ_THRESHOLD == 80
AVG_RELEVANCE_SCORE_THRESHOLD == 50
SNIPPET_LEN == 500
DATE_WINDOW == 3

\* --------------------------------------------------------------- state.py
\* SearchStrategyType, in definition order
STRATEGY_ORDER == <<"exact_match", "temporal_expanded", "entity_dropped">>

\* PipelineStage
PipelineStage == {"extract", "search", "validate", "merge", "complete", "escalate"}

\* MediaFeatureField, in definition order
MediaFeatureField ==
    <<"officer_name", "civilian_name", "civilian_age", "civilian_race", "weapon",
      "location_detail", "time_of_day", "outcome", "circumstance">>

\* fields that also exist on EnrichmentState
FIELD_TO_STATE_ATTR == {"officer_name", "civilian_name"}

DatasetType == {"civilians_shot", "officers_shot"}

\* EnrichmentState(incident_id=..., dataset_type=...) with its defaults; the
\* identity fields are never written and are inputs of the Extract step
EnrichmentState(max_retries) ==
    [ officer_name          |-> None,
      civilian_name         |-> None,
      incident_date         |-> NoNum,
      location              |-> None,
      severity              |-> "None",
      search_attempts       |-> <<>>,
      retrieved_articles    |-> <<>>,
      validation_results    |-> <<>>,
      extracted_fields      |-> <<>>,
      conflicting_fields    |-> None,
      retry_count           |-> 0,
      max_retries           |-> max_retries,
      next_strategy         |-> "exact_match",
      current_stage         |-> "extract",
      next_stage            |-> "extract",
      escalation_reason     |-> "None",
      requires_human_review |-> FALSE,
      output_file_path      |-> "None",
      reasoning_summary     |-> "None",
      error_message         |-> "None" ]

\* -------------------------------------------------------- extract_node.py
\* names of the model's incidents
Jay == <<"j">>
Rod == <<"r", "o", "d">>
Doe == <<"d", "o", "e">>
Houston == <<"h", "o", "u">>
Harris == <<"h", "a", "r">>
\* dates are day numbers of March 2018
IncidentDay == 15

\* one row of the incident query (both outcome columns; the query of a
\* dataset selects its own)
Row(d, city, county, of, ol, cf, cl, died, harm) ==
    [ date_incident |-> d, incident_city |-> city, incident_county |-> county,
      officer_first |-> of, officer_last |-> ol,
      civilian_first |-> cf, civilian_last |-> cl,
      civilian_died |-> died, officer_harm |-> harm ]

\* the incidents of the model's database
Rows ==
    { Row(IncidentDay, Houston, Harris, Jay, Rod, Doe, None, "True", "DEATH"),
      Row(IncidentDay, None, Harris, None, None, Doe, None, "False", "INJURY"),
      Row(IncidentDay, <<>>, None, <<>>, Rod, None, None, "None", "OTHER"),
      Row(NoNum, Houston, None, Jay, None, None, None, "True", "INJURY"),
      Row(NoNum, None, None, None, None, None, <<>>, "None", "None") }

\* what the lookup does: incident_id is not a number, the connection or the
\* query fails, the incident does not exist, or one row comes back
DbOutcomes == {[kind |-> "bad_id"], [kind |-> "error"], [kind |-> "not_found"]}
              \cup {[kind |-> "row", row |-> r] : r \in Rows}

\* "Build full names": first and last joined by one space, None if both empty
FullName(first, last) ==
    IF Truthy(first) \/ Truthy(last)
    THEN JoinSpace(SelectSeq(<<first, last>>, Truthy))
    ELSE None

Severity(dataset_type, row) ==
    IF dataset_type = "civilians_shot"
    THEN (CASE row.civilian_died = "True" -> "fatal"
            [] row.civilian_died = "False" -> "non-fatal"
            [] OTHER -> "unknown")
    ELSE (CASE row.officer_harm = "DEATH" -> "fatal"
            [] row.officer_harm = "INJURY" -> "non-fatal"
            [] OTHER -> "unknown")

fetch_incident(dataset_type, row) ==
    [ officer_name  |-> FullName(row.officer_first, row.officer_last),
      civilian_name |-> FullName(row.civilian_first, row.civilian_last),
      incident_date |-> row.date_incident,
      location      |-> IF Truthy(row.incident_city) THEN row.incident_city
                        ELSE row.incident_county,
      severity      |-> Severity(dataset_type, row) ]

\* mutant of extract_node: a failed lookup is swallowed without a message
extract_node_no_message(s, dataset_type, db) ==
    IF db.kind = "row"
    THEN LET d == fetch_incident(dataset_type, db.row)
         IN [s EXCEPT !.officer_name = d.officer_name,
                      !.civilian_name = d.civilian_name,
                      !.incident_date = d.incident_date,
                      !.location = d.location,
                      !.severity = d.severity,
                      !.current_stage = "extract"]
    ELSE [s EXCEPT !.current_stage = "extract"]

\* the connection when extract_node returns: conn.close() is the last
\* statement of the try block, after the lookup and the assignments; a
\* database error is either get_connection failing (no connection was
\* acquired) or the query failing on an acquired connection
ConnAfter(db) ==
    CASE db.kind = "row" -> {"closed"}
      [] db.kind = "error" -> {"none", "open"}
      [] OTHER -> {"open"}

extract_node(s, dataset_type, db) ==
    IF db.kind = "row"
    THEN LET d == fetch_incident(dataset_type, db.row)
         IN [s EXCEPT !.officer_name = d.officer_name,
                      !.civilian_name = d.civilian_name,
                      !.incident_date = d.incident_date,
                      !.location = d.location,
                      !.severity = d.severity,
                      !.current_stage = "extract"]
    ELSE [s EXCEPT !.error_message = "Extract failed",
                   !.current_stage = "extract"]

\* --------------------------------------------------------- search_node.py
strftime_iso(d) == <<"2018-03-", ToString(d)>>
strftime_month(d) == <<"March 2018">>

\* build_search_query raises AttributeError when incident_date is None
build_search_query_raises(s) == s.incident_date = NoNum

build_search_query(s, strategy) ==
    LET date == IF strategy = "exact_match" THEN strftime_iso(s.incident_date)
                ELSE strftime_month(s.incident_date)
        officer == IF strategy = "entity_dropped" THEN <<>> ELSE s.officer_name
        civilian == IF strategy = "entity_dropped" THEN <<>> ELSE s.civilian_name
    IN JoinSpace(
         (IF Truthy(s.location) THEN <<s.location>> ELSE <<>>)
         \o <<<<"Texas police shooting">>>>
         \o <<date>>
         \o (IF Truthy(officer) THEN <<officer>> ELSE <<>>)
         \o (IF Truthy(civilian) THEN <<civilian>> ELSE <<>>)
         \o (IF s.severity = "fatal" THEN <<<<"fatal">>>> ELSE <<>>))

\* texts a result can carry
TextNear == <<"x", "H", "o", "u">>
TextFar == <<"x", "y", "z">>
Title == <<"t">>
Urls == <<"u1", "u2", "u3", "u4">>

\* one entry of the search response's "results" array
Results == [content : {TextNear, TextFar}, score : {10, 90}]

\* what the web search does: it fails, or returns up to MaxResults results
SearchOutcomes ==
    {[kind |-> "error"]}
    \cup {[kind |-> "ok", results |-> r] :
            r \in UNION {[1..n -> Results] : n \in 0..MaxResults}}

Take(s, n) == SubSeq(s, 1, Min(n, Len(s)))

_convert_tavily_result(result, i) ==
    [ url |-> Urls[i], title |-> Title,
      snippet |-> Take(result.content, SNIPPET_LEN),
      published_date |-> NoNum,
      content |-> result.content,
      relevance_score |-> result.score ]

RECURSIVE Sum(_)
Sum(xs) == IF Len(xs) = 0 THEN 0 ELSE xs[1] + Sum(Tail(xs))

SearchAttempt(query, strategy, num_results, avg) ==
    [query |-> query, strategy |-> strategy, num_results |-> num_results,
     avg_relevance_score |-> avg]

\* mutant of search_node: a failed search leaves no SearchAttempt
search_node_drops_attempt(s, out) ==
    LET strategy == s.next_strategy
        search_query == build_search_query(s, strategy)
    IN IF out.kind = "ok"
       THEN LET tavily_articles ==
                    [i \in 1..Len(out.results) |-> _convert_tavily_result(out.results[i], i)]
                num_results == Len(tavily_articles)
                avg == IF num_results # 0
                       THEN Sum([i \in 1..num_results |-> tavily_articles[i].relevance_score])
                            \div num_results
                       ELSE NoNum
            IN [s EXCEPT !.retrieved_articles = tavily_articles,
                         !.search_attempts =
                             Append(@, SearchAttempt(search_query, strategy, num_results, avg)),
                         !.current_stage = "search"]
       ELSE [s EXCEPT !.error_message = "Search failed",
                      !.retrieved_articles = <<>>,
                      !.current_stage = "search"]

\* defined when build_search_query does not raise
search_node(s, out) ==
    LET strategy == s.next_strategy
        search_query == build_search_query(s, strategy)
    IN IF out.kind = "ok"
       THEN LET tavily_articles ==
                    [i \in 1..Len(out.results) |-> _convert_tavily_result(out.results[i], i)]
                num_results == Len(tavily_articles)
                avg == IF num_results # 0
                       THEN Sum([i \in 1..num_results |-> tavily_articles[i].relevance_score])
                            \div num_results
                       ELSE NoNum
            IN [s EXCEPT !.retrieved_articles = tavily_articles,
                         !.search_attempts =
                             Append(@, SearchAttempt(search_query, strategy, num_results, avg)),
                         !.current_stage = "search"]
       ELSE [s EXCEPT !.error_message = "Search failed",
                      !.retrieved_articles = <<>>,
                      !.search_attempts =
                          Append(@, SearchAttempt(search_query, strategy, 0, NoNum)),
                      !.current_stage = "search"]

\* ------------------------------------------------------- validate_node.py
check_location_match(article_location, location) ==
    IF article_location = None \/ location = None THEN FALSE
    ELSE partial_ratio(Lower(article_location), Lower(location)) >= RAPIDFUZZ_THRESHOLD

check_name_match(article_name, name) ==
    IF article_name = None \/ name = None THEN FALSE
    ELSE partial_ratio(Lower(article_name), Lower(name)) >= RAPIDFUZZ_THRESHOLD

\* mutant of check_date_match: the difference is not taken in absolute value
check_date_match_one_sided(article_date, incident_date) ==
    IF article_date = NoNum \/ incident_date = NoNum THEN FALSE
    ELSE article_date - incident_date <= DATE_WINDOW

check_date_match(article_date, incident_date) ==
    IF article_date = NoNum \/ incident_date = NoNum THEN FALSE
    ELSE Abs(article_date - incident_date) <= DATE_WINDOW

\* article.content or article.title
ArticleText(article) ==
    IF Truthy(article.content) THEN article.content ELSE article.title

\* mutant of ValidationResult: a victim name that does not match fails the article
ValidationResult_requires_name(s, article) ==
    LET date_match == check_date_match(article.published_date, s.incident_date)
        article_text == ArticleText(article)
        location_match == check_location_match(article_text, s.location)
        name_match == IF s.civilian_name = None THEN "None"
                      ELSE IF check_name_match(article_text, s.civilian_name) THEN "True"
                      ELSE "False"
    IN [ article |-> article,
         date_match |-> date_match,
         location_match |-> location_match,
         victim_name_match |-> name_match,
         passed |-> date_match /\ location_match /\ name_match # "False" ]

ValidationResult(s, article) ==
    LET date_match == check_date_match(article.published_date, s.incident_date)
        article_text == ArticleText(article)
        location_match == check_location_match(article_text, s.location)
    IN [ article |-> article,
         date_match |-> date_match,
         location_match |-> location_match,
         victim_name_match |->
             IF s.civilian_name = None THEN "None"
             ELSE IF check_name_match(article_text, s.civilian_name) THEN "True"
             ELSE "False",
         passed |-> date_match /\ location_match ]

\* mutant of validate_node: also resets the retry counter
validate_node_resets_retry(s, raised) ==
    IF raised
    THEN [s EXCEPT !.validation_results = <<>>,
                   !.error_message = "Validation failed",
                   !.retry_count = 0,
                   !.current_stage = "validate"]
    ELSE [s EXCEPT !.validation_results =
                       [i \in 1..Len(s.retrieved_articles) |->
                           ValidationResult(s, s.retrieved_articles[i])],
                   !.retry_count = 0,
                   !.current_stage = "validate"]

\* raised: something inside the try block raised (the except branch)
validate_node(s, raised) ==
    IF raised
    THEN [s EXCEPT !.validation_results = <<>>,
                   !.error_message = "Validation failed",
                   !.current_stage = "validate"]
    ELSE [s EXCEPT !.validation_results =
                       [i \in 1..Len(s.retrieved_articles) |->
                           ValidationResult(s, s.retrieved_articles[i])],
                   !.current_stage = "validate"]

\* ----------------------------------------------------- coordinate_node.py
Escalated(s, reason) ==
    [s EXCEPT !.escalation_reason = reason,
              !.requires_human_review = TRUE,
              !.next_stage = "escalate"]

\* mutant of check_extract_results: searches whatever the baseline holds
check_extract_results_no_fields_check(s) ==
    IF s.error_message = "Extract failed"
    THEN Escalated(s, "extraction_error")
    ELSE [s EXCEPT !.next_stage = "search"]

\* mutant of check_extract_results: missing fields are looked at before the
\* error message
check_extract_results_fields_first(s) ==
    IF ~(Truthy(s.civilian_name) \/ Truthy(s.officer_name) \/ s.incident_date # NoNum)
    THEN Escalated(s, "insufficient_sources")
    ELSE IF s.error_message = "Extract failed"
    THEN Escalated(s, "extraction_error")
    ELSE [s EXCEPT !.next_stage = "search"]

check_extract_results(s) ==
    IF s.error_message = "Extract failed"
    THEN Escalated(s, "extraction_error")
    ELSE IF ~(Truthy(s.civilian_name) \/ Truthy(s.officer_name) \/ s.incident_date # NoNum)
    THEN Escalated(s, "insufficient_sources")
    ELSE [s EXCEPT !.next_stage = "search"]

IndexOf(seq, x) == CHOOSE i \in 1..Len(seq) : seq[i] = x

\* mutant of retry_helper: jumps to the last strategy instead of the successor
retry_helper_skip(s) ==
    LET current_index == IndexOf(STRATEGY_ORDER, s.next_strategy)
        next_index == current_index + 1
    IN IF next_index > Len(STRATEGY_ORDER)
       THEN Escalated(s, "max_retries")
       ELSE [s EXCEPT !.retry_count = @ + 1,
                      !.next_strategy = STRATEGY_ORDER[Len(STRATEGY_ORDER)],
                      !.next_stage = "search"]

\* mutant of retry_helper: counts a retry twice
retry_helper_by_two(s) ==
    LET current_index == IndexOf(STRATEGY_ORDER, s.next_strategy)
        next_index == current_index + 1
    IN IF next_index > Len(STRATEGY_ORDER)
       THEN Escalated(s, "max_retries")
       ELSE [s EXCEPT !.retry_count = @ + 2,
                      !.next_strategy = STRATEGY_ORDER[next_index],
                      !.next_stage = "search"]

\* mutant of retry_helper: advances the strategy without counting the retry
retry_helper_no_count(s) ==
    LET current_index == IndexOf(STRATEGY_ORDER, s.next_strategy)
        next_index == current_index + 1
    IN IF next_index > Len(STRATEGY_ORDER)
       THEN Escalated(s, "max_retries")
       ELSE [s EXCEPT !.next_strategy = STRATEGY_ORDER[next_index],
                      !.next_stage = "search"]

retry_helper(s) ==
    LET current_index == IndexOf(STRATEGY_ORDER, s.next_strategy)
        next_index == current_index + 1
    IN IF next_index > Len(STRATEGY_ORDER)
       THEN Escalated(s, "max_retries")
       ELSE [s EXCEPT !.retry_count = @ + 1,
                      !.next_strategy = STRATEGY_ORDER[next_index],
                      !.next_stage = "search"]

\* mutant of RelevanceOk: any non-zero average is accepted
RelevanceOk_nonzero(s) ==
    /\ Len(s.search_attempts) > 0
    /\ LET avg == s.search_attempts[Len(s.search_attempts)].avg_relevance_score
       IN avg # NoNum /\ avg # 0

\* mutant of RelevanceOk: an average of exactly the threshold is rejected
RelevanceOk_strict(s) ==
    /\ Len(s.search_attempts) > 0
    /\ LET avg == s.search_attempts[Len(s.search_attempts)].avg_relevance_score
       IN avg # NoNum /\ avg # 0 /\ avg > AVG_RELEVANCE_SCORE_THRESHOLD

\* search_attempts[-1].avg_relevance_score is set, non-zero and >= threshold
RelevanceOk(s) ==
    /\ Len(s.search_attempts) > 0
    /\ LET avg == s.search_attempts[Len(s.search_attempts)].avg_relevance_score
       IN avg # NoNum /\ avg # 0 /\ avg >= AVG_RELEVANCE_SCORE_THRESHOLD

check_search_results(s) ==
    IF s.retry_count <= s.max_retries
    THEN IF s.error_message = "Search failed" THEN retry_helper(s)
         ELSE IF RelevanceOk(s) THEN [s EXCEPT !.next_stage = "validate"]
         ELSE retry_helper(s)
    ELSE Escalated(s, "max_retries")

\* mutant of check_validate_results: escalates without recording the reason
check_validate_results_no_reason(s) ==
    IF \E i \in 1..Len(s.validation_results) : s.validation_results[i].passed
    THEN [s EXCEPT !.next_stage = "merge"]
    ELSE [s EXCEPT !.requires_human_review = TRUE, !.next_stage = "escalate"]

\* mutant of check_validate_results: escalates with a reserved reason
check_validate_results_low_confidence(s) ==
    IF \E i \in 1..Len(s.validation_results) : s.validation_results[i].passed
    THEN [s EXCEPT !.next_stage = "merge"]
    ELSE Escalated(s, "low_confidence")

\* mutant of check_validate_results: every article has to pass
check_validate_results_all_passed(s) ==
    IF /\ Len(s.validation_results) > 0
       /\ \A i \in 1..Len(s.validation_results) : s.validation_results[i].passed
    THEN [s EXCEPT !.next_stage = "merge"]
    ELSE Escalated(s, "validation_error")

check_validate_results(s) ==
    IF \E i \in 1..Len(s.validation_results) : s.validation_results[i].passed
    THEN [s EXCEPT !.next_stage = "merge"]
    ELSE Escalated(s, "validation_error")

\* mutant of check_merge_results: completes without looking at extracted_fields
check_merge_results_no_empty_check(s) ==
    IF s.error_message = "Merge failed"
    THEN Escalated(s, "merge_error")
    ELSE IF s.conflicting_fields # None /\ s.conflicting_fields # <<>>
    THEN Escalated(s, "conflict")
    ELSE [s EXCEPT !.next_stage = "complete"]

\* mutant of check_merge_results: admitted fields complete the record before
\* conflicts are looked at
check_merge_results_complete_first(s) ==
    IF s.error_message = "Merge failed"
    THEN Escalated(s, "merge_error")
    ELSE IF s.extracted_fields # <<>>
    THEN [s EXCEPT !.next_stage = "complete"]
    ELSE IF s.conflicting_fields # None /\ s.conflicting_fields # <<>>
    THEN Escalated(s, "conflict")
    ELSE Escalated(s, "insufficient_sources")

\* mutant of check_merge_results: an empty extracted_fields is looked at before
\* the conflicts
check_merge_results_empty_first(s) ==
    IF s.error_message = "Merge failed"
    THEN Escalated(s, "merge_error")
    ELSE IF s.extracted_fields = <<>>
    THEN Escalated(s, "insufficient_sources")
    ELSE IF s.conflicting_fields # None /\ s.conflicting_fields # <<>>
    THEN Escalated(s, "conflict")
    ELSE [s EXCEPT !.next_stage = "complete"]

check_merge_results(s) ==
    IF s.error_message = "Merge failed"
    THEN Escalated(s, "merge_error")
    ELSE IF s.conflicting_fields # None /\ s.conflicting_fields # <<>>
    THEN Escalated(s, "conflict")
    ELSE IF s.extracted_fields = <<>>
    THEN Escalated(s, "insufficient_sources")
    ELSE [s EXCEPT !.next_stage = "complete"]

\* mutant of coordinate_node: an unexpected stage is escalated
coordinate_node_other_escalates(s) ==
    CASE s.current_stage = "extract" -> check_extract_results(s)
      [] s.current_stage = "search" -> check_search_results(s)
      [] s.current_stage = "validate" -> check_validate_results(s)
      [] s.current_stage = "merge" -> check_merge_results(s)
      [] OTHER -> Escalated(s, "insufficient_sources")

coordinate_node(s) ==
    CASE s.current_stage = "extract" -> check_extract_results(s)
      [] s.current_stage = "search" -> check_search_results(s)
      [] s.current_stage = "validate" -> check_validate_results(s)
      [] s.current_stage = "merge" -> check_merge_results(s)
      [] OTHER -> s

\* ---------------------------------------------------------------- graph.py
\* the nodes build_graph adds
GraphNodes == {"extract", "search", "validate", "merge", "complete", "escalate", "coordinate"}

\* mutant of route_after_coordinator: no fallback
route_after_coordinator_identity(s) == s.next_stage

route_after_coordinator(s) ==
    IF s.next_stage \notin {"search", "validate", "merge", "complete", "escalate"}
    THEN "escalate"
    ELSE s.next_stage

complete_node(s) ==
    [s EXCEPT !.current_stage = "complete",
              !.requires_human_review = FALSE,
              !.output_file_path = "pending",
              !.reasoning_summary = "pending"]

escalate_node(s) ==
    [s EXCEPT !.current_stage = "escalate",
              !.requires_human_review = TRUE,
              !.output_file_path = "pending",
              !.reasoning_summary = "pending"]

\* ---------------------------------------------------------- merge_node.py
\* values an article can give for a name (Ro is within ratio 80 of Rod) and
\* for the weapon
Ro == <<"r", "o">>
Kim == <<"k", "i", "m">>
Gun == <<"g", "u", "n">>
Axe == <<"a", "x", "e">>

Extraction(field_name, value) == [field_name |-> field_name, value |-> value]

\* the extractions one structured LLM answer holds: one about a name, one
\* about the weapon, or one of each
LlmNameParts ==
    {<<>>}
    \cup {<<Extraction("officer_name", v)>> : v \in {None, Rod, Ro, Kim}}
    \cup {<<Extraction("civilian_name", Kim)>>}
LlmWeaponParts == {<<>>} \cup {<<Extraction("weapon", v)>> : v \in {None, Gun, Axe}}

\* what structured_llm.invoke does for one article: it raises, it returns an
\* object without extractions, or it returns a MergeExtractionResponse
LlmPairs ==
    { <<Extraction("officer_name", Ro), Extraction("weapon", Gun)>>,
      <<Extraction("officer_name", Kim), Extraction("weapon", Gun)>>,
      <<Extraction("civilian_name", Kim), Extraction("weapon", Axe)>> }

LlmOutcomes ==
    {[kind |-> "raise"], [kind |-> "malformed"]}
    \cup {[kind |-> "ok", extractions |-> e] :
             e \in LlmNameParts \cup LlmWeaponParts \cup LlmPairs}

\* the dict built by "extractions[extraction.field_name] = extraction": keys
\* in first-insertion order, each with the last value assigned
DictOf(items) ==
    LET first(i) == \A j \in 1..(i - 1) : items[j].field_name # items[i].field_name
        last(f) == SetMax({j \in 1..Len(items) : items[j].field_name = f})
        keys == SelectSeq([i \in 1..Len(items) |-> IF first(i) THEN i ELSE 0],
                          LAMBDA i : i # 0)
    IN [k \in 1..Len(keys) |-> items[last(items[keys[k]].field_name)]]

\* defined when the LLM's answer is not malformed
extract_fields(article, out) ==
    IF article.content = None THEN <<>>
    ELSE IF out.kind = "raise" THEN <<>>
    ELSE DictOf([i \in 1..Len(out.extractions) |->
                    [ field_name |-> out.extractions[i].field_name,
                      value |-> out.extractions[i].value,
                      confidence |-> "pending",
                      sources |-> <<article.url>> ]])

\* extractions_by_field[field_name]: the field's extraction of every article
\* that has one, in article order
RECURSIVE ByField(_, _)
ByField(all_extractions, field_name) ==
    IF Len(all_extractions) = 0 THEN <<>>
    ELSE SelectSeq(all_extractions[1], LAMBDA e : e.field_name = field_name)
         \o ByField(Tail(all_extractions), field_name)

Count(values, v) == Cardinality({i \in 1..Len(values) : values[i] = v})

\* Counter(values).most_common(1)[0][0]: the first-seen value of highest count
MostCommon(values) ==
    LET best == SetMax({Count(values, values[i]) : i \in 1..Len(values)})
        at == CHOOSE i \in 1..Len(values) :
                  /\ Count(values, values[i]) = best
                  /\ \A j \in 1..(i - 1) : Count(values, values[j]) # best
    IN values[at]

NoMatch == [matched |-> FALSE]
\* mutant of Matched: the winner keeps the confidence it was extracted with
Matched_keeps_confidence(result, confidence) ==
    [matched |-> TRUE, result |-> result]

Matched(result, confidence) ==
    [matched |-> TRUE, result |-> [result EXCEPT !.confidence = confidence]]

\* mutant of check_articles_match: a ratio of exactly the threshold does not
\* reconcile
check_articles_match_strict(extracted_results) ==
    LET non_null_results == SelectSeq(extracted_results, LAMBDA r : r.value # None)
        non_null_values == [i \in 1..Len(non_null_results) |-> non_null_results[i].value]
        distinct == {non_null_values[i] : i \in 1..Len(non_null_values)}
    IN IF Len(non_null_results) = 0 THEN NoMatch
       ELSE IF Len(non_null_results) = 1 THEN Matched(non_null_results[1], "medium")
       ELSE IF Cardinality(distinct) = 1 THEN Matched(non_null_results[1], "high")
       ELSE LET most_common == MostCommon(non_null_values)
                others == distinct \ {most_common}
            IN IF \A other \in others : ratio(most_common, other) > RAPIDFUZZ_THRESHOLD
               THEN Matched(SelectSeq(non_null_results,
                                      LAMBDA r : r.value = most_common)[1], "medium")
               ELSE NoMatch

check_articles_match(extracted_results) ==
    LET non_null_results == SelectSeq(extracted_results, LAMBDA r : r.value # None)
        non_null_values == [i \in 1..Len(non_null_results) |-> non_null_results[i].value]
        distinct == {non_null_values[i] : i \in 1..Len(non_null_values)}
    IN IF Len(non_null_results) = 0 THEN NoMatch
       ELSE IF Len(non_null_results) = 1 THEN Matched(non_null_results[1], "medium")
       ELSE IF Cardinality(distinct) = 1 THEN Matched(non_null_results[1], "high")
       ELSE LET most_common == MostCommon(non_null_values)
                others == distinct \ {most_common}
            IN IF \A other \in others : ratio(most_common, other) >= RAPIDFUZZ_THRESHOLD
               THEN Matched(SelectSeq(non_null_results,
                                      LAMBDA r : r.value = most_common)[1], "medium")
               ELSE NoMatch

\* mutant of check_reference_match: no special case for a missing reference,
\* str(None) is compared like any other reference
check_reference_match_no_none(extracted_field, reference) ==
    IF ratio(IF reference = None THEN <<"N", "o", "n", "e">> ELSE reference,
             extracted_field.value) < RAPIDFUZZ_THRESHOLD
    THEN NoMatch
    ELSE [matched |-> TRUE, result |-> [extracted_field EXCEPT !.value = reference]]

\* mutant of check_reference_match: a ratio of exactly the threshold is a mismatch
check_reference_match_strict(extracted_field, reference) ==
    IF reference = None THEN [matched |-> TRUE, result |-> extracted_field]
    ELSE IF ratio(reference, extracted_field.value) <= RAPIDFUZZ_THRESHOLD THEN NoMatch
    ELSE [matched |-> TRUE, result |-> [extracted_field EXCEPT !.value = reference]]

\* mutant of check_reference_match: a matching extraction keeps its own spelling
check_reference_match_keeps_value(extracted_field, reference) ==
    IF reference = None THEN [matched |-> TRUE, result |-> extracted_field]
    ELSE IF ratio(reference, extracted_field.value) < RAPIDFUZZ_THRESHOLD THEN NoMatch
    ELSE [matched |-> TRUE, result |-> extracted_field]

check_reference_match(extracted_field, reference) ==
    IF reference = None THEN [matched |-> TRUE, result |-> extracted_field]
    ELSE IF ratio(reference, extracted_field.value) < RAPIDFUZZ_THRESHOLD THEN NoMatch
    ELSE [matched |-> TRUE, result |-> [extracted_field EXCEPT !.value = reference]]

\* getattr(state, FIELD_TO_STATE_ATTR[field_name])
Reference(s, field_name) ==
    IF field_name = "officer_name" THEN s.officer_name ELSE s.civilian_name

\* one round of the "Consistency check" loop, on the lists built so far
MergeField(s, acc, field_name, extraction) ==
    IF Len(extraction) = 0 THEN acc
    ELSE LET articles_match == check_articles_match(extraction)
         IN IF articles_match.matched
            THEN IF field_name \in FIELD_TO_STATE_ATTR
                 THEN LET reference_match ==
                              check_reference_match(articles_match.result,
                                                    Reference(s, field_name))
                      IN [ extracted_fields |->
                               Append(acc.extracted_fields,
                                      IF reference_match.matched THEN reference_match.result
                                      ELSE articles_match.result),
                           conflicting_fields |->
                               IF reference_match.matched THEN acc.conflicting_fields
                               ELSE Append(acc.conflicting_fields, field_name) ]
                 ELSE [acc EXCEPT !.extracted_fields = Append(@, articles_match.result)]
            ELSE [acc EXCEPT !.conflicting_fields = Append(@, field_name)]

RECURSIVE MergeLoop(_, _, _, _)
MergeLoop(s, all_extractions, k, acc) ==
    IF k > Len(MediaFeatureField) THEN acc
    ELSE MergeLoop(s, all_extractions, k + 1,
                   MergeField(s, acc, MediaFeatureField[k],
                              ByField(all_extractions, MediaFeatureField[k])))

\* mutant of merge_node: an LLM call that raises fails the whole Merge
merge_node_raise_fails(s, outs) ==
    IF \E i \in 1..Len(s.retrieved_articles) :
           s.retrieved_articles[i].content # None /\ outs[i].kind \in {"malformed", "raise"}
    THEN [s EXCEPT !.extracted_fields = <<>>,
                   !.conflicting_fields = None,
                   !.error_message = "Merge failed",
                   !.current_stage = "merge"]
    ELSE LET all_extractions ==
                 [i \in 1..Len(s.retrieved_articles) |->
                     extract_fields(s.retrieved_articles[i], outs[i])]
             merged == MergeLoop(s, all_extractions, 1,
                                 [ extracted_fields |-> s.extracted_fields,
                                   conflicting_fields |-> <<>> ])
         IN [s EXCEPT !.extracted_fields = merged.extracted_fields,
                      !.conflicting_fields = merged.conflicting_fields,
                      !.current_stage = "merge"]

\* outs[i] is what the LLM does when called for retrieved_articles[i]
merge_node(s, outs) ==
    IF \E i \in 1..Len(s.retrieved_articles) :
           s.retrieved_articles[i].content # None /\ outs[i].kind = "malformed"
    THEN [s EXCEPT !.extracted_fields = <<>>,
                   !.conflicting_fields = None,
                   !.error_message = "Merge failed",
                   !.current_stage = "merge"]
    ELSE LET all_extractions ==
                 [i \in 1..Len(s.retrieved_articles) |->
                     extract_fields(s.retrieved_articles[i], outs[i])]
             merged == MergeLoop(s, all_extractions, 1,
                                 [ extracted_fields |-> s.extracted_fields,
                                   conflicting_fields |-> <<>> ])
         IN [s EXCEPT !.extracted_fields = merged.extracted_fields,
                      !.conflicting_fields = merged.conflicting_fields,
                      !.current_stage = "merge"]

\* ------------------------------------------------- the graph, from START
\* graph.invoke(EnrichmentState(incident_id, dataset_type, max_retries=...))
Init ==
    /\ \E m \in 0..MaxMaxRetries : state = EnrichmentState(m)
    /\ pc = "extract"
    /\ nSearch = 0
    /\ llm = <<>>
    /\ conn = "none"

Extract ==
    /\ pc = "extract"
    /\ \E dataset_type \in DatasetType, db \in DbOutcomes :
           /\ state' = extract_node(state, dataset_type, db)
           /\ conn' \in ConnAfter(db)
    /\ pc' = "coordinate"
    /\ UNCHANGED <<nSearch, llm>>

Coordinate ==
    /\ pc = "coordinate"
    /\ state' = coordinate_node(state)
    /\ pc' = route_after_coordinator(state')
    /\ UNCHANGED <<nSearch, llm, conn>>

\* the Search node returns
Search ==
    /\ pc = "search"
    /\ ~build_search_query_raises(state)
    /\ \E out \in SearchOutcomes : state' = search_node(state, out)
    /\ pc' = "coordinate"
    /\ nSearch' = nSearch + 1
    /\ UNCHANGED <<llm, conn>>

\* the Search node raises before its try block: graph.invoke raises
SearchRaises ==
    /\ pc = "search"
    /\ build_search_query_raises(state)
    /\ pc' = "raised"
    /\ nSearch' = nSearch + 1
    /\ UNCHANGED <<state, llm, conn>>

Validate ==
    /\ pc = "validate"
    /\ \E raised \in BOOLEAN : state' = validate_node(state, raised)
    /\ pc' = "coordinate"
    /\ UNCHANGED <<nSearch, llm, conn>>

Complete ==
    /\ pc = "complete"
    /\ state' = complete_node(state)
    /\ pc' = "END"
    /\ UNCHANGED <<nSearch, llm, conn>>

Escalate ==
    /\ pc = "escalate"
    /\ state' = escalate_node(state)
    /\ pc' = "END"
    /\ UNCHANGED <<nSearch, llm, conn>>

\* Merge and Complete are wired into the graph but no traversal from START
\* routes to them (see NextNodes for their steps)
Next == Extract \/ Coordinate \/ Search \/ SearchRaises \/ Validate \/ Escalate

Spec == Init /\ [][Next]_vars

\* ------------------------------- the nodes after Search, from a dated search
\* articles as a search that reports publication dates leaves them: text in
\* content or only in the title, near or far from the incident in time and place
ArticleKinds ==
    { [content |-> TextNear, title |-> Title, published_date |-> IncidentDay + DATE_WINDOW],
      [content |-> None, title |-> TextNear, published_date |-> IncidentDay],
      [content |-> TextFar, title |-> Title, published_date |-> IncidentDay] }

Article(kind, i) ==
    [ url |-> Urls[i], title |-> kind.title,
      snippet |-> IF kind.content = None THEN <<>> ELSE Take(kind.content, SNIPPET_LEN),
      published_date |-> kind.published_date,
      content |-> kind.content,
      relevance_score |-> 90 ]

\* the state the coordinator hands to Validate after one accepted search
AfterSearch(officer_name, civilian_name, kinds) ==
    LET s == [EnrichmentState(3) EXCEPT
                  !.officer_name = officer_name,
                  !.civilian_name = civilian_name,
                  !.incident_date = IncidentDay,
                  !.location = Houston,
                  !.severity = "fatal"]
        found == [s EXCEPT
                  !.retrieved_articles = [i \in 1..Len(kinds) |-> Article(kinds[i], i)],
                  !.search_attempts =
                      <<SearchAttempt(build_search_query(s, "exact_match"),
                                      "exact_match", Len(kinds), 90)>>,
                  !.current_stage = "search"]
    IN coordinate_node(found)

InitNodes ==
    /\ \E officer_name \in {None, Rod}, civilian_name \in {None, Rod},
          kinds \in UNION {[1..n -> ArticleKinds] : n \in 1..MaxArticles} :
           state = AfterSearch(officer_name, civilian_name, kinds)
    /\ pc = route_after_coordinator(state)
    /\ nSearch = 1
    /\ llm = <<>>
    /\ conn = "closed"

Merge ==
    /\ pc = "merge"
    /\ \E outs \in [1..Len(state.retrieved_articles) -> LlmOutcomes] :
           \* an article without content never reaches the LLM
           /\ \A i \in 1..Len(outs) :
                  state.retrieved_articles[i].content = None => outs[i].kind = "raise"
           /\ state' = merge_node(state, outs)
           /\ llm' = outs
    /\ pc' = "coordinate"
    /\ UNCHANGED <<nSearch, conn>>

NextNodes == Validate \/ Coordinate \/ Merge \/ Complete \/ Escalate

SpecNodes == InitNodes /\ [][NextNodes]_vars

\* ------------------------------------------ every node of the graph
\* traversals from START together with the traversals after a dated search:
\* every node of the graph takes steps
InitAll == Init \/ InitNodes

NextAll ==
    Extract \/ Coordinate \/ Search \/ SearchRaises \/ Validate \/ Merge
    \/ Complete \/ Escalate

SpecAll == InitAll /\ [][NextAll]_vars

\* ------------------------------------------- the functions, called alone
\* check_articles_match and check_date_match called on their own, as the
\* unit tests call them
Od == <<"o", "d">>

\* values of one field: Rod is within ratio 80 of Ro and of Od, which are
\* not within 80 of each other; Kim is far from all
MatchValues == {None, Rod, Ro, Od, Kim}

\* what extract_fields returns for one field of the i-th article
FieldExtraction(field_name, value, i) ==
    [ field_name |-> field_name, value |-> value,
      confidence |-> "pending", sources |-> <<Urls[i]>> ]

ArticlesMatchCalls ==
    { [ fn |-> "check_articles_match",
        extracted_results |->
            [i \in 1..Len(values) |-> FieldExtraction("officer_name", values[i], i)] ] :
      values \in UNION {[1..n -> MatchValues] : n \in 0..MaxValues} }

DateMatchCalls ==
    { [ fn |-> "check_date_match", article_date |-> a, incident_date |-> d ] :
      a \in {NoNum} \cup ((IncidentDay - MaxDayOffset)..(IncidentDay + MaxDayOffset)),
      d \in {NoNum, IncidentDay} }

InitCalls ==
    /\ state \in ArticlesMatchCalls \cup DateMatchCalls
    /\ pc = "call"
    /\ nSearch = 0
    /\ llm = <<>>
    /\ conn = "none"

ArticlesMatch ==
    /\ pc = "call"
    /\ state.fn = "check_articles_match"
    /\ state' = [ fn |-> state.fn,
                  extracted_results |-> state.extracted_results,
                  returned |-> check_articles_match(state.extracted_results) ]
    /\ pc' = "returned"
    /\ UNCHANGED <<nSearch, llm, conn>>

DateMatch ==
    /\ pc = "call"
    /\ state.fn = "check_date_match"
    /\ state' = [ fn |-> state.fn,
                  article_date |-> state.article_date,
                  incident_date |-> state.incident_date,
                  returned |-> check_date_match(state.article_date, state.incident_date) ]
    /\ pc' = "returned"
    /\ UNCHANGED <<nSearch, llm, conn>>

NextCalls == ArticlesMatch \/ DateMatch

SpecCalls == InitCalls /\ [][NextCalls]_vars

\* ================================================================ claims
\* names in extracted_fields / conflicting_fields of a state
ExtractedNames(s) == {s.extracted_fields[i].field_name : i \in 1..Len(s.extracted_fields)}
ConflictingNames(s) ==
    IF s.conflicting_fields = None THEN {}
    ELSE {s.conflicting_fields[i] : i \in 1..Len(s.conflicting_fields)}
FieldNames == {MediaFeatureField[k] : k \in 1..Len(MediaFeatureField)}

\* Merge has run and did not fail
Merged == llm # <<>> /\ state.error_message # "Merge failed"

\* the extractions of every article, as Merge collected them
AllExtractions ==
    [i \in 1..Len(state.retrieved_articles) |->
        extract_fields(state.retrieved_articles[i], llm[i])]

\* the values given for a field in the collected extractions
GivenIn(all_extractions, field_name) ==
    LET by_field == ByField(all_extractions, field_name)
    IN [i \in 1..Len(by_field) |-> by_field[i].value]

\* the values the articles gave for a field, as Merge grouped them
GivenFor(field_name) == GivenIn(AllExtractions, field_name)

\* C1: in every reachable state of a traversal retry_count <= max_retries,
\* for every configured max_retries >= 0.
C1_RetryCountWithinMax == state.retry_count <= state.max_retries

\* C2: len(search_attempts) equals the number of times the Search node has
\* been invoked.
C2_AttemptsCountInvocations == Len(state.search_attempts) = nSearch

\* C3: no processing node raises to the coordinator: every node the
\* coordinator routes to returns a state.
C3_NoNodeRaises == pc # "raised"

\* C4: every traversal ends at the complete or the escalate terminal node,
\* after at most 3 Search invocations.
C4_EndsAtTerminal ==
    pc \in {"END", "raised"} =>
        /\ state.current_stage \in {"complete", "escalate"}
        /\ nSearch <= Len(STRATEGY_ORDER)

\* C5: in every reachable state of a traversal, requires_human_review = true
\* implies escalation_reason is not null.
C5_ReviewHasReason ==
    state.requires_human_review => state.escalation_reason # "None"

\* a traversal that ended at the escalate terminal
C5_Witness ==
    /\ pc = "END"
    /\ state.current_stage = "escalate"
    /\ state.requires_human_review

\* C6: with a populated baseline, one search of mean relevance >= 0.5 whose
\* results all mention the location, the traversal ends at COMPLETE with
\* requires_human_review = false.
C6_HappyPathCompletes ==
    ( /\ pc = "END"
      /\ Truthy(state.officer_name) /\ Truthy(state.civilian_name)
      /\ state.incident_date # NoNum /\ Truthy(state.location)
      /\ state.error_message = "None"
      /\ Len(state.search_attempts) = 1
      /\ RelevanceOk(state)
      /\ Len(state.retrieved_articles) > 0
      /\ \A i \in 1..Len(state.retrieved_articles) :
             check_location_match(ArticleText(state.retrieved_articles[i]), state.location) )
    => state.current_stage = "complete" /\ ~state.requires_human_review

\* C7: a field for which every article's extraction has a null value is
\* added neither to extracted_fields nor to conflicting_fields.
C7_AllNullOmitted ==
    Merged =>
        \A f \in FieldNames :
            LET given == GivenFor(f)
            IN (Len(given) > 0 /\ \A i \in 1..Len(given) : given[i] = None)
               => f \notin ExtractedNames(state) /\ f \notin ConflictingNames(state)

\* C8 (as claimed): after Merge no field name is both in extracted_fields and
\* in conflicting_fields.
C8_NeverInBoth ==
    Merged => ExtractedNames(state) \cap ConflictingNames(state) = {}

\* C8 (amended): after Merge a field name is in both extracted_fields and
\* conflicting_fields only if it is officer_name or civilian_name and its
\* baseline value is not null; any other field is in at most one of them,
\* and no name is listed twice in either.
C8_InBothOnlyWithReference ==
    Merged =>
        /\ \A f \in ExtractedNames(state) \cap ConflictingNames(state) :
               f \in FIELD_TO_STATE_ATTR /\ Reference(state, f) # None
        /\ Cardinality(ExtractedNames(state)) = Len(state.extracted_fields)
        /\ Cardinality(ConflictingNames(state)) = Len(state.conflicting_fields)

\* Merge admitted the weapon alone, and admitted and flagged the civilian name
C8_Witness ==
    /\ Merged
    /\ "weapon" \in ExtractedNames(state) \ ConflictingNames(state)
    /\ "civilian_name" \in ExtractedNames(state) \cap ConflictingNames(state)

\* C9: a field in extracted_fields is also in conflicting_fields only if it
\* is officer_name or civilian_name, its baseline is not null and the
\* converged value's ratio against the baseline is below 80; the admitted
\* value is then the converged value the articles gave, not the baseline.
C9_InBothIsReferenceConflict ==
    Merged =>
        \A i \in 1..Len(state.extracted_fields) :
            LET e == state.extracted_fields[i]
                given == GivenFor(e.field_name)
            IN (e.field_name \in ConflictingNames(state)) =>
                   /\ e.field_name \in FIELD_TO_STATE_ATTR
                   /\ Reference(state, e.field_name) # None
                   /\ ratio(Reference(state, e.field_name), e.value) < RAPIDFUZZ_THRESHOLD
                   /\ e.value # Reference(state, e.field_name)
                   /\ \E k \in 1..Len(given) : given[k] = e.value

\* the articles agree on an officer name far from the baseline: admitted and flagged
C9_Witness ==
    /\ Merged
    /\ state.officer_name = Rod
    /\ "officer_name" \in ConflictingNames(state)
    /\ \E i \in 1..Len(state.extracted_fields) :
           /\ state.extracted_fields[i].field_name = "officer_name"
           /\ state.extracted_fields[i].value = Kim
           /\ state.extracted_fields[i].confidence = "high"

\* C10: the k-th recorded search used the k-th strategy of the order, and
\* next_strategy is the strategy of the last search or its successor: no
\* strategy is skipped, repeated or revisited.
C10_StrategyLadder ==
    LET n == Len(state.search_attempts)
    IN /\ n <= Len(STRATEGY_ORDER)
       /\ \A k \in 1..n : state.search_attempts[k].strategy = STRATEGY_ORDER[k]
       /\ IndexOf(STRATEGY_ORDER, state.next_strategy) \in {Max(n, 1), n + 1}

\* all three strategies were searched, in order
C10_Witness ==
    /\ pc = "END"
    /\ Len(state.search_attempts) = 3
    /\ state.next_strategy = "entity_dropped"

\* C11: retry_count never decreases; it increases, by exactly 1, only in a
\* coordinator step taken after SEARCH that routes back to SEARCH with the
\* successor strategy; every other step leaves it unchanged.
C11_RetryCountMonotone ==
    [][ /\ state'.retry_count >= state.retry_count
        /\ state'.retry_count # state.retry_count =>
               /\ state'.retry_count = state.retry_count + 1
               /\ pc = "coordinate"
               /\ state.current_stage = "search"
               /\ state'.next_stage = "search"
               /\ pc' = "search"
               /\ IndexOf(STRATEGY_ORDER, state'.next_strategy)
                      = IndexOf(STRATEGY_ORDER, state.next_strategy) + 1 ]_vars

\* the coordinator has sent the traversal back to Search twice
C11_Witness ==
    /\ pc = "search"
    /\ state.retry_count = 2
    /\ state.next_strategy = "entity_dropped"
    /\ Len(state.search_attempts) = 2

\* the fields only the coordinator writes
RoutingFields(s) ==
    <<s.next_stage, s.escalation_reason, s.requires_human_review,
      s.retry_count, s.next_strategy>>

\* C12: on a state a processing node has just returned, applying
\* coordinate_node again to coordinate_node(s) leaves next_stage,
\* escalation_reason, requires_human_review, retry_count and next_strategy as
\* they were after the first application.
C12_CoordinatorIdempotent ==
    pc = "coordinate" =>
        LET once == coordinate_node(state)
            twice == coordinate_node(once)
        IN RoutingFields(twice) = RoutingFields(once)

\* C13: when the retry helper finds a successor strategy, the state it
\* returns has retrieved_articles = [], retry_count incremented by one,
\* next_strategy the successor and next_stage = SEARCH.
C13_RetryClearsArticles ==
    ( /\ pc = "coordinate"
      /\ state.current_stage = "search"
      /\ IndexOf(STRATEGY_ORDER, state.next_strategy) < Len(STRATEGY_ORDER) )
    => LET r == retry_helper(state)
       IN /\ r.retrieved_articles = <<>>
          /\ r.retry_count = state.retry_count + 1
          /\ r.next_strategy =
                 STRATEGY_ORDER[IndexOf(STRATEGY_ORDER, state.next_strategy) + 1]
          /\ r.next_stage = "search"

\* every recorded search had no results or an average relevance below 0.5
AllLow(s) ==
    \A k \in 1..Len(s.search_attempts) :
        \/ s.search_attempts[k].avg_relevance_score = NoNum
        \/ s.search_attempts[k].avg_relevance_score < AVG_RELEVANCE_SCORE_THRESHOLD

\* C14: with max_retries = 3, if every Search invocation yields an average
\* relevance below 0.5 (or no results), Validate and Merge never run and the
\* traversal ends at ESCALATE with reason MAX_RETRIES, requires_human_review
\* = true and exactly 3 search_attempts, one per strategy in ladder order.
C14_LowRelevanceEscalates ==
    ( /\ state.max_retries = 3
      /\ nSearch = Len(state.search_attempts)
      /\ AllLow(state) )
    => /\ pc \notin {"validate", "merge", "complete"}
       /\ state.current_stage \notin {"validate", "merge", "complete"}
       /\ state.validation_results = <<>>
       /\ llm = <<>>
       /\ (pc = "END" /\ nSearch > 0) =>
              /\ state.current_stage = "escalate"
              /\ state.escalation_reason = "max_retries"
              /\ state.requires_human_review
              /\ Len(state.search_attempts) = 3
              /\ \A k \in 1..3 : state.search_attempts[k].strategy = STRATEGY_ORDER[k]

\* three searches returned results of low relevance and the traversal ended
C14_Witness ==
    /\ pc = "END"
    /\ state.max_retries = 3
    /\ state.error_message = "None"
    /\ Len(state.search_attempts) = 3
    /\ \A k \in 1..3 : /\ state.search_attempts[k].num_results > 0
                       /\ state.search_attempts[k].avg_relevance_score = 10
    /\ state.escalation_reason = "max_retries"

\* C15: whenever Validate is invoked, retry_count is the (0-based) index of
\* next_strategy in the strategy order and is len(search_attempts) - 1, and
\* the last SearchAttempt has strategy = next_strategy and
\* avg_relevance_score >= 0.5.
C15_ValidateAfterAcceptedSearch ==
    pc = "validate" =>
        LET n == Len(state.search_attempts)
        IN /\ n > 0
           /\ state.retry_count = IndexOf(STRATEGY_ORDER, state.next_strategy) - 1
           /\ state.retry_count = n - 1
           /\ state.search_attempts[n].strategy = state.next_strategy
           /\ state.search_attempts[n].avg_relevance_score # NoNum
           /\ state.search_attempts[n].avg_relevance_score >= AVG_RELEVANCE_SCORE_THRESHOLD

\* a low-relevance EXACT_MATCH search, then an accepted TEMPORAL_EXPANDED one
C15_Witness ==
    /\ pc = "validate"
    /\ state.retry_count = 1
    /\ state.next_strategy = "temporal_expanded"
    /\ Len(state.search_attempts) = 2
    /\ state.search_attempts[1].avg_relevance_score = 10
    /\ state.search_attempts[2].avg_relevance_score >= AVG_RELEVANCE_SCORE_THRESHOLD

\* C16: at the complete terminal requires_human_review = false,
\* extracted_fields is non-empty, conflicting_fields is empty and
\* escalation_reason is null; at the escalate terminal requires_human_review
\* = true and escalation_reason is set.
C16_TerminalRecords ==
    /\ (pc = "complete" \/ (pc = "END" /\ state.current_stage = "complete")) =>
           /\ ~state.requires_human_review
           /\ state.extracted_fields # <<>>
           /\ state.conflicting_fields \in {None, <<>>}
           /\ state.escalation_reason = "None"
    /\ (pc = "escalate" \/ (pc = "END" /\ state.current_stage = "escalate")) =>
           /\ state.requires_human_review
           /\ state.escalation_reason # "None"
    /\ pc = "END" => state.current_stage \in {"complete", "escalate"}

\* a traversal that completed with two admitted fields
C16_Witness ==
    /\ pc = "END"
    /\ state.current_stage = "complete"
    /\ Len(state.extracted_fields) = 2
    /\ state.output_file_path = "pending"

\* Extract returned without error and found no name and no date
NoIdentity(s) ==
    /\ s.civilian_name = None
    /\ s.officer_name = None
    /\ s.incident_date = NoNum
    /\ s.error_message = "None"

\* C17: once a coordinator step sets next_stage = ESCALATE the next node
\* executed is the escalate terminal, no processing node runs afterwards and
\* escalation_reason keeps its value; when Extract yields civilian_name,
\* officer_name and incident_date all null, Search is never invoked:
\* search_attempts is empty at the terminal and the reason is
\* INSUFFICIENT_SOURCES.
C17_EscalateIsFinal ==
    [][ /\ state'.next_stage = "escalate" => pc' \in {"escalate", "END"}
        /\ state.next_stage = "escalate" =>
               /\ pc = "escalate"
               /\ pc' = "END"
               /\ state'.current_stage = "escalate"
               /\ state'.escalation_reason = state.escalation_reason
               /\ nSearch' = nSearch
               /\ llm' = llm
        /\ NoIdentity(state') =>
               /\ nSearch' = 0
               /\ state'.search_attempts = <<>>
               /\ pc' = "END" =>
                      /\ state'.current_stage = "escalate"
                      /\ state'.escalation_reason = "insufficient_sources" ]_vars

\* Extract found a row without names and date, and the traversal ended
C17_Witness ==
    /\ pc = "END"
    /\ NoIdentity(state)
    /\ state.escalation_reason = "insufficient_sources"
    /\ state.search_attempts = <<>>
    /\ nSearch = 0

BaselineNull(s) ==
    /\ s.officer_name = None
    /\ s.civilian_name = None
    /\ s.incident_date = NoNum
    /\ s.location = None
    /\ s.severity = "None"

\* C19: if the incident lookup fails (a database error, a non-existent or a
\* non-numeric incident_id), Extract returns with error_message beginning
\* "Extract failed: ", current_stage = EXTRACT, and officer_name,
\* civilian_name, incident_date, location and severity all still null.
C19_ExtractFailure ==
    /\ pc = "extract" =>
           \A dataset_type \in DatasetType, db \in DbOutcomes :
               db.kind # "row" =>
                   LET s == extract_node(state, dataset_type, db)
                   IN /\ s.error_message = "Extract failed"
                      /\ s.current_stage = "extract"
                      /\ BaselineNull(s)
    /\ state.error_message = "Extract failed" =>
           /\ BaselineNull(state)
           /\ pc = "coordinate" => state.current_stage = "extract"

\* Extract has returned from a failed lookup
C19_Witness ==
    /\ pc = "coordinate"
    /\ state.error_message = "Extract failed"
    /\ state.current_stage = "extract"
    /\ state.next_stage = "extract"

\* C20: when the web-search call fails, Search appends exactly one
\* SearchAttempt (the attempted query and strategy, num_results = 0,
\* avg_relevance_score = null), sets retrieved_articles to [], sets
\* error_message beginning "Search failed: " and sets current_stage = SEARCH.
C20_SearchFailure ==
    /\ (pc = "search" /\ ~build_search_query_raises(state)) =>
           LET s == search_node(state, [kind |-> "error"])
               n == Len(state.search_attempts)
           IN /\ Len(s.search_attempts) = n + 1
              /\ SubSeq(s.search_attempts, 1, n) = state.search_attempts
              /\ s.search_attempts[n + 1] =
                     SearchAttempt(build_search_query(state, state.next_strategy),
                                   state.next_strategy, 0, NoNum)
              /\ s.retrieved_articles = <<>>
              /\ s.error_message = "Search failed"
              /\ s.current_stage = "search"
    /\ state.error_message = "Search failed" =>
           \E k \in 1..Len(state.search_attempts) :
               /\ state.search_attempts[k].num_results = 0
               /\ state.search_attempts[k].avg_relevance_score = NoNum

\* a search that found articles was rejected and the retry's web search failed
C20_Witness ==
    /\ pc = "coordinate"
    /\ state.current_stage = "search"
    /\ state.error_message = "Search failed"
    /\ Len(state.search_attempts) = 2
    /\ state.search_attempts[1].num_results > 0
    /\ state.search_attempts[2].num_results = 0
    /\ state.search_attempts[2].strategy = "temporal_expanded"
    /\ state.retrieved_articles = <<>>

\* Merge has run: the articles whose LLM call was made and raised, and the
\* indices of the other articles
LlmFailed == {i \in 1..Len(llm) : state.retrieved_articles[i].content # None
                                  /\ llm[i].kind = "raise"}
LlmAnswered == SelectSeq([i \in 1..Len(llm) |-> i], LAMBDA i : i \notin LlmFailed)

\* C21: an LLM call that fails for one article is swallowed by Merge: the
\* article contributes no extractions and the other articles are reconciled
\* as if it were absent; if every article's call fails, Merge returns
\* extracted_fields = [], conflicting_fields = [], no "Merge failed" and
\* current_stage = MERGE, and the coordinator escalates with
\* INSUFFICIENT_SOURCES, not MERGE_ERROR.
C21_LlmFailureSwallowed ==
    (llm # <<>> /\ LlmFailed # {}) =>
        /\ (\A i \in 1..Len(llm) : llm[i].kind # "malformed") =>
               LET others == [state EXCEPT
                                 !.extracted_fields = <<>>,
                                 !.retrieved_articles =
                                     [k \in 1..Len(LlmAnswered) |->
                                         state.retrieved_articles[LlmAnswered[k]]]]
                   alone == merge_node(others,
                                       [k \in 1..Len(LlmAnswered) |-> llm[LlmAnswered[k]]])
               IN /\ state.error_message # "Merge failed"
                  /\ state.extracted_fields = alone.extracted_fields
                  /\ state.conflicting_fields = alone.conflicting_fields
                  /\ \A i \in LlmFailed, k \in 1..Len(state.extracted_fields) :
                         state.retrieved_articles[i].url
                             # state.extracted_fields[k].sources[1]
        /\ (\A i \in 1..Len(llm) : llm[i].kind = "raise") =>
               /\ state.extracted_fields = <<>>
               /\ state.conflicting_fields = <<>>
               /\ state.error_message # "Merge failed"
               /\ pc = "coordinate" => state.current_stage = "merge"
               /\ pc \in {"escalate", "END"} =>
                      state.escalation_reason = "insufficient_sources"

\* the call for the first article raised, the second article's answer was admitted
C21_Witness ==
    /\ llm # <<>>
    /\ 1 \in LlmFailed
    /\ Len(llm) = 2
    /\ llm[2].kind = "ok"
    /\ Len(state.extracted_fields) = 2
    /\ state.extracted_fields[1].sources = <<"u2">>

\* C22: every FieldExtraction in extracted_fields after Merge has confidence
\* HIGH or MEDIUM; PENDING, assigned by the per-article extraction, never
\* survives into extracted_fields, on the reference cross-check paths too.
C22_ConfidenceHighOrMedium ==
    llm # <<>> =>
        \A i \in 1..Len(state.extracted_fields) :
            state.extracted_fields[i].confidence \in {"high", "medium"}

\* admitted: a name overwritten by the baseline, with MEDIUM, and a weapon
\* two articles agree on, with HIGH
C22_Witness ==
    /\ Merged
    /\ Len(state.extracted_fields) = 2
    /\ state.extracted_fields[1].field_name = "officer_name"
    /\ state.extracted_fields[1].value = Rod
    /\ state.extracted_fields[1].confidence = "medium"
    /\ \E k \in 1..Len(llm) : llm[k].kind = "ok" /\ Len(llm[k].extractions) > 0
                              /\ llm[k].extractions[1].value = Ro
    /\ state.extracted_fields[2].field_name = "weapon"
    /\ state.extracted_fields[2].confidence = "high"

\* the extractions the articles gave for a field, as Merge grouped them
ExtractionsFor(field_name) == ByField(AllExtractions, field_name)

\* the non-null values given for a field in the collected extractions do not
\* reconcile: some distinct value has ratio below 80 to the plurality winner
UnreconciledIn(all_extractions, field_name) ==
    LET given == SelectSeq(GivenIn(all_extractions, field_name), LAMBDA v : v # None)
        distinct == {given[i] : i \in 1..Len(given)}
    IN /\ Cardinality(distinct) > 1
       /\ LET most_common == MostCommon(given)
          IN \E other \in distinct \ {most_common} :
                 ratio(most_common, other) < RAPIDFUZZ_THRESHOLD

Unreconciled(field_name) == UnreconciledIn(AllExtractions, field_name)

\* C23: when the articles give values for a field that do not reconcile, the
\* field is listed in conflicting_fields, no extraction of it is admitted to
\* extracted_fields, the other fields are still reconciled, and the
\* traversal ends at ESCALATE with reason CONFLICT.
C23_ConflictEscalates ==
    \* the state Merge returns
    /\ (Merged /\ pc = "coordinate") =>
           LET all_extractions == AllExtractions
               unreconciled == {f \in FieldNames : UnreconciledIn(all_extractions, f)}
           IN /\ \A f \in unreconciled : /\ f \in ConflictingNames(state)
                                         /\ f \notin ExtractedNames(state)
              /\ unreconciled # {} =>
                     \A g \in FieldNames :
                         LET given == ByField(all_extractions, g)
                         IN (Len(given) > 0 /\ check_articles_match(given).matched)
                            => g \in ExtractedNames(state)
    \* the rest of the traversal, with the lists Merge returned
    /\ (Merged /\ pc # "coordinate" /\ ConflictingNames(state) # {}) =>
           /\ pc \in {"escalate", "END"}
           /\ state.escalation_reason = "conflict"
           /\ pc = "END" => state.current_stage = "escalate"

\* two articles name different weapons and one names the officer: the weapon
\* is a conflict, the officer name is admitted, the traversal escalated
C23_Witness ==
    /\ Merged
    /\ pc = "END"
    /\ Unreconciled("weapon")
    /\ state.conflicting_fields = <<"weapon">>
    /\ ExtractedNames(state) = {"officer_name"}
    /\ state.escalation_reason = "conflict"

\* the reasons a gate after the given stage may assign
ReasonsAfter(stage) ==
    CASE stage = "extract" -> {"extraction_error", "insufficient_sources"}
      [] stage = "search" -> {"max_retries"}
      [] stage = "validate" -> {"validation_error"}
      [] stage = "merge" -> {"merge_error", "conflict", "insufficient_sources"}
      [] OTHER -> {}

C25_TerminalStageUnchanged ==
    state.current_stage \in {"complete", "escalate"} => coordinate_node(state) = state

\* a completed record with one admitted field, with the routing fields the
\* traversal left in it
C25_Witness ==
    /\ pc = "END"
    /\ state.current_stage = "complete"
    /\ state.next_stage = "complete"
    /\ Len(state.extracted_fields) = 1
    /\ coordinate_node(state) = state

\* C26: the router maps next_stage in {SEARCH, VALIDATE, MERGE, COMPLETE,
\* ESCALATE} to the node of the same name and any other next_stage (EXTRACT)
\* to the escalate node; it never routes back to Extract and never returns a
\* name that is not a graph node.
C26_RouterTotal ==
    /\ \A next_stage \in PipelineStage :
           LET node == route_after_coordinator([state EXCEPT !.next_stage = next_stage])
           IN /\ next_stage \in {"search", "validate", "merge", "complete", "escalate"}
                     => node = next_stage
              /\ next_stage \notin {"search", "validate", "merge", "complete", "escalate"}
                     => node = "escalate"
              /\ node # "extract"
              /\ node \in GraphNodes
    /\ pc \in {"search", "validate", "merge", "complete", "escalate"} =>
           pc = state.next_stage

\* the router has sent a validated traversal to Merge
C26_Witness ==
    /\ pc = "merge"
    /\ state.next_stage = "merge"
    /\ state.current_stage = "validate"
    /\ route_after_coordinator(state) = "merge"

\* C27: for every article, ValidationResult.passed equals date_match AND
\* location_match; victim_name_match does not affect passed and is null
\* exactly when civilian_name is null; location_match is false whenever the
\* state's location is null.
C27_PassedIsDateAndLocation ==
    \A i \in 1..Len(state.validation_results) :
        LET v == state.validation_results[i]
        IN /\ v.passed = (v.date_match /\ v.location_match)
           /\ (v.victim_name_match = "None") = (state.civilian_name = None)
           /\ state.location = None => ~v.location_match
           /\ v.article = state.retrieved_articles[i]

\* an article passed although the victim's name does not occur in it, and
\* another failed on its location
C27_Witness ==
    /\ Len(state.validation_results) = 2
    /\ state.validation_results[1].passed
    /\ state.validation_results[1].victim_name_match = "False"
    /\ ~state.validation_results[2].location_match
    /\ state.validation_results[2].date_match
    /\ pc = "coordinate"

\* C28: if one Search invocation fails and a later Search invocation of the
\* same traversal (with retry_count <= max_retries) succeeds with average
\* relevance >= 0.5, the coordinator routes to VALIDATE rather than retrying
\* again or escalating.
C28_SuccessAfterFailedSearch ==
    ( /\ pc = "coordinate"
      /\ state.current_stage = "search"
      /\ state.retry_count <= state.max_retries
      /\ state.error_message = "Search failed"
      /\ state.retrieved_articles # <<>>
      /\ RelevanceOk(state) )
    => coordinate_node(state).next_stage = "validate"

\* the ValidationResult.passed of the article with the given url
PassedUrl(url) ==
    \E i \in 1..Len(state.validation_results) :
        /\ state.validation_results[i].article.url = url
        /\ state.validation_results[i].passed

\* C29: every URL in the sources of a FieldExtraction in extracted_fields,
\* and every value counted during reconciliation, comes from an article
\* whose ValidationResult.passed is true.
C29_OnlyPassedArticlesFeed ==
    Merged =>
        /\ \A k \in 1..Len(state.extracted_fields) :
               \A j \in 1..Len(state.extracted_fields[k].sources) :
                   PassedUrl(state.extracted_fields[k].sources[j])
        /\ \A f \in FieldNames :
               \A k \in 1..Len(ExtractionsFor(f)) :
                   PassedUrl(ExtractionsFor(f)[k].sources[1])

\* C30: every database connection acquired by Extract is closed by the time
\* Extract returns, on the success path and on every failure path (query
\* error, incident not found).
C30_ConnectionClosed ==
    pc # "extract" => conn # "open"

\* the same list in another order
Permute(xs, p) == [i \in 1..Len(xs) |-> xs[p[i]]]

\* two returns of check_articles_match: the same decision and, when
\* admitted, the same value and confidence
SameOutcome(a, b) ==
    /\ a.matched = b.matched
    /\ a.matched => /\ a.result.value = b.result.value
                    /\ a.result.confidence = b.result.confidence

\* C31: for any permutation of the same per-article extractions,
\* check_articles_match returns the same decision (admit or conflict), the
\* same admitted value and the same confidence, including when two values tie
\* for most common.
C31_OrderIndependent ==
    (pc = "returned" /\ state.fn = "check_articles_match") =>
        \A p \in Permutations(1..Len(state.extracted_results)) :
            SameOutcome(check_articles_match(Permute(state.extracted_results, p)),
                        state.returned)

\* C32: every traversal executes Extract, coordinator, one or more (Search,
\* coordinator) rounds, at most one (Validate, coordinator), at most one
\* (Merge, coordinator), then exactly one terminal node: the coordinator runs
\* after every processing node, Extract, Validate and Merge each run at most
\* once, Validate runs only after a Search the coordinator accepted, and
\* Merge only after a Validate in which at least one article passed.
C32_NodeOrder ==
    [][ /\ pc \in {"extract", "search", "validate", "merge"} => pc' = "coordinate"
        /\ pc = "coordinate" =>
               pc' \in {"search", "validate", "merge", "complete", "escalate"}
        /\ pc \in {"complete", "escalate"} => pc' = "END"
        /\ pc' # "extract"
        /\ pc' = "search" => state.current_stage \in {"extract", "search"}
        /\ pc' = "validate" =>
               /\ state.current_stage = "search"
               /\ RelevanceOk(state)
               /\ state.validation_results = <<>>
        /\ pc' = "merge" =>
               /\ state.current_stage = "validate"
               /\ \E i \in 1..Len(state.validation_results) :
                      state.validation_results[i].passed
               /\ llm = <<>>
        /\ pc' \in {"complete", "escalate"} => state.current_stage \notin {"complete", "escalate"}
      ]_vars

\* the successor branch or the exhausted branch of the retry helper, as the
\* specification words it
RetryHelperResult(s) ==
    LET index == IndexOf(STRATEGY_ORDER, s.next_strategy)
    IN IF index < Len(STRATEGY_ORDER)
       THEN [s EXCEPT !.next_strategy = STRATEGY_ORDER[index + 1],
                      !.retry_count = s.retry_count + 1,
                      !.next_stage = "search"]
       ELSE [s EXCEPT !.next_stage = "escalate",
                      !.escalation_reason = "max_retries",
                      !.requires_human_review = TRUE]

\* C33: after SEARCH the coordinator decides in this order: retry_count >
\* max_retries gives ESCALATE with MAX_RETRIES whatever the relevance; else a
\* search-failure error_message invokes the retry helper; else a most recent
\* SearchAttempt whose avg_relevance_score exists and is >= 0.5 gives
\* next_stage = VALIDATE with retry_count and next_strategy unchanged; else
\* the retry helper is invoked.
C33_SearchDecision ==
    (pc = "coordinate" /\ state.current_stage = "search") =>
        LET r == coordinate_node(state)
            n == Len(state.search_attempts)
            avg == state.search_attempts[n].avg_relevance_score
        IN IF state.retry_count > state.max_retries
           THEN r = [state EXCEPT !.next_stage = "escalate",
                                  !.escalation_reason = "max_retries",
                                  !.requires_human_review = TRUE]
           ELSE IF state.error_message = "Search failed"
           THEN r = RetryHelperResult(state)
           ELSE IF n > 0 /\ avg # NoNum /\ avg >= 50
           THEN r = [state EXCEPT !.next_stage = "validate"]
           ELSE r = RetryHelperResult(state)

\* a search whose two results average exactly 0.5 was accepted
C33_Witness ==
    /\ pc = "validate"
    /\ state.search_attempts[Len(state.search_attempts)].avg_relevance_score = 50
    /\ state.search_attempts[Len(state.search_attempts)].num_results = 2
    /\ state.error_message = "None"

\* C34: after MERGE the coordinator applies its checks in precedence order: a
\* "Merge failed" error_message gives MERGE_ERROR; else non-empty
\* conflicting_fields gives CONFLICT, even when extracted_fields is empty;
\* else empty extracted_fields gives INSUFFICIENT_SOURCES; else next_stage =
\* COMPLETE with escalation_reason and requires_human_review left unset.
C34_MergeDecision ==
    (pc = "coordinate" /\ state.current_stage = "merge") =>
        LET r == coordinate_node(state)
            escalates(reason) ==
                r = [state EXCEPT !.next_stage = "escalate",
                                  !.escalation_reason = reason,
                                  !.requires_human_review = TRUE]
        IN IF state.error_message = "Merge failed"
           THEN escalates("merge_error")
           ELSE IF ConflictingNames(state) # {}
           THEN escalates("conflict")
           ELSE IF Len(state.extracted_fields) = 0
           THEN escalates("insufficient_sources")
           ELSE /\ r = [state EXCEPT !.next_stage = "complete"]
                /\ r.escalation_reason = "None"
                /\ r.requires_human_review = FALSE

\* a merge that admitted nothing and left a conflict was escalated as a conflict
C34_Witness ==
    /\ pc = "END"
    /\ state.current_stage = "escalate"
    /\ state.escalation_reason = "conflict"
    /\ state.extracted_fields = <<>>
    /\ ConflictingNames(state) # {}

\* C35: after EXTRACT the coordinator decides: an "Extract failed"
\* error_message gives ESCALATE with EXTRACTION_ERROR, taking precedence over
\* missing fields; else civilian_name, officer_name and incident_date all null
\* gives ESCALATE with INSUFFICIENT_SOURCES; else, when at least one of the
\* three is non-null, next_stage = SEARCH, regardless of location and severity.
C35_ExtractDecision ==
    (pc = "coordinate" /\ state.current_stage = "extract") =>
        LET r == coordinate_node(state)
            escalates(reason) ==
                r = [state EXCEPT !.next_stage = "escalate",
                                  !.escalation_reason = reason,
                                  !.requires_human_review = TRUE]
        IN IF state.error_message = "Extract failed"
           THEN escalates("extraction_error")
           ELSE IF /\ state.civilian_name = None
                   /\ state.officer_name = None
                   /\ state.incident_date = NoNum
           THEN escalates("insufficient_sources")
           ELSE r = [state EXCEPT !.next_stage = "search"]

\* a record with an officer name but no date and no civilian name was sent to
\* Search
C35_Witness ==
    /\ pc = "search"
    /\ nSearch = 0
    /\ state.current_stage = "extract"
    /\ state.incident_date = NoNum
    /\ state.civilian_name = None
    /\ state.officer_name # None

\* C36: after VALIDATE the coordinator routes to MERGE if and only if at
\* least one ValidationResult has passed = true; otherwise, whether all
\* articles failed, validation_results is empty, or Validate caught an
\* exception, it escalates with VALIDATION_ERROR and requires_human_review =
\* true.
C36_ValidateDecision ==
    (pc = "coordinate" /\ state.current_stage = "validate") =>
        LET r == coordinate_node(state)
            anyPassed == \E i \in 1..Len(state.validation_results) :
                             state.validation_results[i].passed
        IN /\ route_after_coordinator(r) = "merge" <=> anyPassed
           /\ anyPassed => r = [state EXCEPT !.next_stage = "merge"]
           /\ ~anyPassed => r = [state EXCEPT !.next_stage = "escalate",
                                              !.escalation_reason = "validation_error",
                                              !.requires_human_review = TRUE]
           /\ state.error_message = "Validation failed" => ~anyPassed

\* Validate caught an exception over articles that were there to validate, and
\* the record was escalated as a validation error
C36_Witness ==
    /\ pc = "END"
    /\ state.error_message = "Validation failed"
    /\ state.retrieved_articles # <<>>
    /\ state.validation_results = <<>>
    /\ state.escalation_reason = "validation_error"
    /\ state.requires_human_review

\* the entries of extracted_fields that carry a field name
AdmittedFor(field_name) ==
    SelectSeq(state.extracted_fields, LAMBDA e : e.field_name = field_name)

\* C37: for officer_name and civilian_name only, after reconciliation: a null
\* baseline admits the converged extraction unchanged; a baseline with fuzzy
\* ratio >= 80 admits it with its value overwritten by the baseline string and
\* no conflict; a baseline with ratio below 80 appends the field to
\* conflicting_fields and admits the converged extraction with its own value.
\* The other seven fields are never compared to a baseline.
C37_ReferenceCheck ==
    (Merged /\ pc = "coordinate") =>
        LET all == AllExtractions
        IN \A f \in FieldNames :
               LET converged == check_articles_match(ByField(all, f))
               IN converged.matched =>
                      LET own == converged.result
                          baseline == Reference(state, f)
                      IN IF f \notin {"officer_name", "civilian_name"}
                         THEN /\ AdmittedFor(f) = <<own>>
                              /\ f \notin ConflictingNames(state)
                         ELSE IF baseline = None
                         THEN /\ AdmittedFor(f) = <<own>>
                              /\ f \notin ConflictingNames(state)
                         ELSE IF ratio(baseline, own.value) >= 80
                         THEN /\ AdmittedFor(f) = <<[own EXCEPT !.value = baseline]>>
                              /\ f \notin ConflictingNames(state)
                         ELSE /\ AdmittedFor(f) = <<own>>
                              /\ f \in ConflictingNames(state)

\* the articles gave an officer name at ratio exactly 80 from the baseline:
\* it was admitted in the baseline's spelling, without a conflict
C37_Witness ==
    /\ Merged /\ pc = "coordinate"
    /\ state.officer_name = Rod
    /\ GivenFor("officer_name") = <<Ro>>
    /\ ratio(Rod, Ro) = 80
    /\ \E i \in 1..Len(state.extracted_fields) :
           /\ state.extracted_fields[i].field_name = "officer_name"
           /\ state.extracted_fields[i].value = Rod
    /\ "officer_name" \notin ConflictingNames(state)

\* C38: per field, over the non-null extractions: exactly one is admitted
\* with MEDIUM; two or more that are all equal admit one with HIGH; otherwise
\* the plurality value is admitted with MEDIUM if every other distinct value
\* has fuzzy ratio >= 80 to it, else nothing is admitted and the field is a
\* conflict (where values tie for the plurality, the rule is applied to one
\* of them). Null extractions never change the outcome.
C38_ArticlesMatch ==
    (pc = "returned" /\ state.fn = "check_articles_match") =>
        LET xs == state.extracted_results
            non_null == SelectSeq(xs, LAMBDA x : x.value # None)
            given == [i \in 1..Len(non_null) |-> non_null[i].value]
            distinct == {given[i] : i \in 1..Len(given)}
            r == state.returned
            admits(v, confidence) ==
                /\ r.matched
                /\ r.result.value = v
                /\ r.result.confidence = confidence
                /\ \E i \in 1..Len(xs) :
                       r.result = [xs[i] EXCEPT !.confidence = confidence]
        IN /\ Len(given) = 1 => admits(given[1], "medium")
           /\ (Len(given) >= 2 /\ Cardinality(distinct) = 1) => admits(given[1], "high")
           /\ Cardinality(distinct) >= 2 =>
                  LET most == SetMax({Count(given, v) : v \in distinct})
                      plurality == {v \in distinct : Count(given, v) = most}
                  IN \E m \in plurality :
                         IF \A other \in distinct \ {m} : ratio(m, other) >= 80
                         THEN admits(m, "medium")
                         ELSE ~r.matched
           /\ r = check_articles_match(non_null)

\* the plurality value, given second and third, was admitted with MEDIUM over
\* an outlier at ratio exactly 80
C38_Witness ==
    /\ pc = "returned" /\ state.fn = "check_articles_match"
    /\ Len(state.extracted_results) = 3
    /\ state.extracted_results[1].value = Ro
    /\ state.extracted_results[2].value = Rod
    /\ state.extracted_results[3].value = Rod
    /\ ratio(Rod, Ro) = 80
    /\ state.returned.matched
    /\ state.returned.result.value = Rod
    /\ state.returned.result.confidence = "medium"

\* C39: date_match is true exactly when both dates are non-null and the
\* absolute difference between the article's published_date and the
\* incident_date is at most 3 days, in either direction: 3 days gives true, 4
\* days gives false, a null date on either side gives false.
C39_DateWindow ==
    (pc = "returned" /\ state.fn = "check_date_match") =>
        LET a == state.article_date
            d == state.incident_date
        IN /\ state.returned <=>
                  (a # NoNum /\ d # NoNum /\ a - d <= 3 /\ d - a <= 3)
           /\ (a # NoNum /\ d # NoNum /\ (a - d = 3 \/ d - a = 3)) => state.returned
           /\ (a # NoNum /\ d # NoNum /\ (a - d = 4 \/ d - a = 4)) => ~state.returned
           /\ (a = NoNum \/ d = NoNum) => ~state.returned

\* an article published 3 days before the incident matched
C39_Witness ==
    /\ pc = "returned" /\ state.fn = "check_date_match"
    /\ state.incident_date = IncidentDay
    /\ state.article_date = IncidentDay - 3
    /\ state.returned

\* the query the specification describes, for a baseline and a strategy
QueryTokens(s, strategy) ==
    LET date_token == IF strategy = "exact_match"
                      THEN strftime_iso(s.incident_date)
                      ELSE strftime_month(s.incident_date)
        with_names == strategy \in {"exact_match", "temporal_expanded"}
        tokens == << [on |-> s.location # None /\ s.location # <<>>, text |-> s.location],
                     [on |-> TRUE, text |-> <<"Texas police shooting">>],
                     [on |-> TRUE, text |-> date_token],
                     [on |-> with_names /\ s.officer_name # None, text |-> s.officer_name],
                     [on |-> with_names /\ s.civilian_name # None, text |-> s.civilian_name],
                     [on |-> s.severity = "fatal", text |-> <<"fatal">>] >>
        present == SelectSeq(tokens, LAMBDA t : t.on)
    IN JoinSpace([i \in 1..Len(present) |-> present[i].text])

\* a state that shares only the baseline fields with s
BaselineOnly(s) ==
    [EnrichmentState(0) EXCEPT !.location = s.location,
                               !.incident_date = s.incident_date,
                               !.officer_name = s.officer_name,
                               !.civilian_name = s.civilian_name,
                               !.severity = s.severity]

\* C40: build_search_query yields, joined by single spaces and in this order:
\* location (if set), "Texas police shooting", the date token (ISO for
\* EXACT_MATCH, "Month YYYY" for TEMPORAL_EXPANDED and ENTITY_DROPPED), officer
\* name then civilian name (only when present, and only for EXACT_MATCH and
\* TEMPORAL_EXPANDED), and "fatal" if and only if severity is "fatal"; the
\* result depends only on the baseline fields and the strategy. Stated for
\* every state the Search node is invoked in and every strategy.
C40_QueryTokens ==
    pc = "search" =>
        \A k \in 1..Len(STRATEGY_ORDER) :
            /\ ~build_search_query_raises(state)
            /\ build_search_query(state, STRATEGY_ORDER[k])
                   = QueryTokens(state, STRATEGY_ORDER[k])
            /\ build_search_query(state, STRATEGY_ORDER[k])
                   = build_search_query(BaselineOnly(state), STRATEGY_ORDER[k])

\* as C40, for the states in which incident_date is set
C40_QueryTokensDated ==
    (pc = "search" /\ state.incident_date # NoNum) =>
        \A k \in 1..Len(STRATEGY_ORDER) :
            /\ build_search_query(state, STRATEGY_ORDER[k])
                   = QueryTokens(state, STRATEGY_ORDER[k])
            /\ build_search_query(state, STRATEGY_ORDER[k])
                   = build_search_query(BaselineOnly(state), STRATEGY_ORDER[k])
            /\ \A i \in 1..Len(state.search_attempts) :
                   state.search_attempts[i].query
                       = QueryTokens(state, state.search_attempts[i].strategy)

====
